---- MODULE Spec2Model ----
(***************************************************************************)
(* The room-based real-time fan-out layer of mood-spectrum:                *)
(* server/src/config/websocket.ts, class WebSocketManager.                 *)
(*                                                                         *)
(* The manager runs on one event loop: every transport event (connection, *)
(* message, error, close) and every admin broadcast runs its handler to    *)
(* completion before the next one starts, so each handler is one action.   *)
(***************************************************************************)
EXTENDS Integers, Sequences, FiniteSets, TLC

\* Number of transport connections accepted over the life of the process.
MaxConns == 2

Conns == 1..MaxConns

\* No socket: the absent `exclude` argument of broadcastToRoom.
NoSocket == 0

\* JavaScript's undefined (an absent field, an unset property).
Undefined == "undefined"

\* Room identifiers a client supplies in room.join.
ClientRoomIds == {"r1"}

\* Every room identifier that can be a key of `rooms`.
RoomIds == ClientRoomIds \cup {"general"}

\* Credentials presented at connect time.
Tokens == {"absent", "invalid", "valid"}

\* More credentials: an expired token, and a verifiable token whose payload
\* carries no userId.
IdentityTokens == Tokens \cup {"expired", "nouserid"}

\* Latest value of Date.now() the model follows, in milliseconds.
MaxClock == 1

\* Math.floor(Math.random()*1000) lies in 0..RandomRange-1.
RandomRange == 1000

\* The values of Math.floor(Math.random()*1000) the model draws.
Randoms == {0, RandomRange - 1}

\* guest_${Date.now()}_${Math.floor(Math.random()*1000)}
guestId(t, r) == "guest_" \o ToString(t) \o "_" \o ToString(r)

\* Values of the template string guest_${Date.now()}_${random}.
GuestIds == {"guest_a"}

\* Tips the REST layer announces.
TipIds == {"t1"}

VARIABLES
    phase,        \* per connection: "new" (not accepted yet), "OPEN", "CLOSING",
                  \* "ERRORED" (closing, 'error' emitted), "CLOSED" ('close' emitted)
    userId,       \* ws.userId
    roomId,       \* ws.roomId
    rooms,        \* WebSocketManager.rooms: roomId -> set of sockets
    userSockets,  \* WebSocketManager.userSockets: userId -> set of sockets
    sent,         \* per connection: the envelopes passed to ws.send by the
                  \* handler of the latest event, in order
    failed,       \* the sockets for which a ws.send of the latest handler did not go out
    now,          \* Date.now()
    secret,       \* whether process.env.JWT_SECRET is set
    broken,       \* sockets whose transport no longer carries writes while their
                  \* readyState is still OPEN ('error'/'close' not emitted yet)
    first,        \* per connection: type of the first envelope ever sent to it
    welcomes,     \* per connection: welcome envelopes sent to it so far (0, 1, many = 2)
    last,         \* the latest event: [op, ws, msg]
    pre,          \* rooms, roomId, userSockets, phase as they were before the latest event
    wire,         \* per connection: what was written to the socket so far, in the
                  \* order of the ws.send calls, each entry with the number of its event
    events,       \* the number of listener runs so far
    wsManager,    \* whether the module variable wsManager holds a manager
    tips,         \* the ids of the documents of the Tip collection
    req,          \* the request a tips route handler is serving
    client,       \* the ChatProvider of one browser tab
    net           \* the frames in flight between that tab and the server

\* The variables of the WebSocketManager and of its sockets.
serverVars ==
    <<phase, userId, roomId, rooms, userSockets, sent, failed, now, secret, broken,
      first, welcomes, last, pre>>

vars == <<serverVars, wire, events, wsManager, tips, req, client, net>>

----------------------------------------------------------------------------
\* Plain helpers.

\* JavaScript truthiness of a string-or-undefined value.
Truthy(x) == x # Undefined /\ x # ""

\* Map.set(k, v)
MapSet(m, k, v) == [x \in DOMAIN m \cup {k} |-> IF x = k THEN v ELSE m[x]]

\* Map.delete(k)
MapDelete(m, k) == [x \in DOMAIN m \ {k} |-> m[x]]

EmptyMap == [x \in {} |-> {}]

\* WebSocket.readyState as the handlers read it.
readyState(ph) == IF ph = "ERRORED" THEN "CLOSING" ELSE ph

\* Outbound envelopes; every envelope carries every field, Undefined (or -1
\* for the count) where the code sets none.
Envelope(type, rid, count, content, sender, uid, payload) ==
    [type |-> type, roomId |-> rid, count |-> count, content |-> content,
     sender |-> sender, userId |-> uid, payload |-> payload]

WelcomeEnvelope ==
    Envelope("welcome", "general", -1, Undefined, Undefined, Undefined, Undefined)

ErrorEnvelope ==
    Envelope("error", Undefined, -1, Undefined, Undefined, Undefined, Undefined)

RoomJoinedEnvelope(rid) ==
    Envelope("room.joined", rid, -1, Undefined, Undefined, Undefined, Undefined)

RoomCountEnvelope(rid, count) ==
    Envelope("room.count", rid, count, Undefined, Undefined, Undefined, Undefined)

ChatEnvelope(rid, content, uid) ==
    Envelope("chat.message", rid, -1, content, "peer", uid, Undefined)

TipEnvelope(type, payload) ==
    Envelope(type, Undefined, -1, Undefined, Undefined, Undefined, payload)

\* Inbound frames.  json says what JSON.parse makes of the text: it throws
\* ("invalid"), yields null ("null": reading a property of it throws a
\* TypeError), or yields an object with the fields of WebSocketMessage.
Message(json, type, rid, content) ==
    [json |-> json, type |-> type, roomId |-> rid, content |-> content]

Frames ==
    {Message("invalid", Undefined, Undefined, Undefined),
     Message("null", Undefined, Undefined, Undefined)}
    \cup {Message("object", "room.join", r, Undefined) : r \in ClientRoomIds \cup {Undefined}}
    \cup {Message("object", "chat.message", Undefined, c) : c \in {"hi", Undefined}}
    \cup {Message("object", "room.leave", Undefined, Undefined)}
    \cup {Message("object", t, Undefined, Undefined) : t \in {"ping", Undefined}}

----------------------------------------------------------------------------
\* The manager's methods, as functions of the manager state
\* st = [rooms, roomId, userSockets, userId, sent, failed, phase, readyState,
\* broken, secret].

\* ws.send(JSON.stringify(message)): the call returns whether or not the
\* frame goes out; it does not go out on a transport that is not open or is
\* broken.
send(st, ws, message) ==
    [st EXCEPT !.sent[ws] = Append(@, message),
               !.failed = IF ws \in st.broken \/ st.readyState[ws] # "OPEN"
                          THEN @ \cup {ws}
                          ELSE @]

\* broadcastToRoom without the `ws !== exclude` test.
broadcastToRoom_NoExclude(st, rid, message, exclude) ==
    IF rid \in DOMAIN st.rooms
    THEN [st EXCEPT !.sent =
            [w \in Conns |->
                IF w \in st.rooms[rid] /\ st.readyState[w] = "OPEN"
                THEN Append(st.sent[w], message)
                ELSE st.sent[w]]]
    ELSE st

\* broadcastToRoom whose loop ends at the first send that fails (sockets
\* taken in the order they were accepted).
broadcastToRoom_AbortOnFailure(st, rid, message, exclude) ==
    IF rid \in DOMAIN st.rooms
    THEN LET to == {w \in st.rooms[rid] : w # exclude /\ st.readyState[w] = "OPEN"}
             reached == {w \in to : \A v \in to \cap st.broken : w <= v}
         IN  [st EXCEPT !.sent = [w \in Conns |->
                                    IF w \in reached
                                    THEN Append(st.sent[w], message)
                                    ELSE st.sent[w]],
                        !.failed = @ \cup (reached \cap st.broken)]
    ELSE st

broadcastToRoom(st, rid, message, exclude) ==
    IF rid \in DOMAIN st.rooms
    THEN LET to == {w \in st.rooms[rid] : w # exclude /\ st.readyState[w] = "OPEN"}
         IN  [st EXCEPT !.sent = [w \in Conns |->
                                    IF w \in to
                                    THEN Append(st.sent[w], message)
                                    ELSE st.sent[w]],
                        !.failed = @ \cup (to \cap st.broken)]
    ELSE st

broadcastRoomCount(st, rid) ==
    LET count == IF rid \in DOMAIN st.rooms THEN Cardinality(st.rooms[rid]) ELSE 0
    IN  broadcastToRoom(st, rid, RoomCountEnvelope(rid, count), NoSocket)

\* leaveRoom that broadcasts the count before it deletes the socket.
leaveRoom_BroadcastFirst(st, ws) ==
    LET r == st.roomId[ws]
        left == IF Truthy(r) /\ r \in DOMAIN st.rooms
                THEN LET b == broadcastRoomCount(st, r)
                     IN  [b EXCEPT !.rooms[r] = @ \ {ws}]
                ELSE st
    IN  [left EXCEPT !.roomId[ws] = Undefined]

\* leaveRoom that forgets to delete the socket from the room's member set.
leaveRoom_NoDelete(st, ws) ==
    LET r == st.roomId[ws]
        left == IF Truthy(r) /\ r \in DOMAIN st.rooms
                THEN broadcastRoomCount(st, r)
                ELSE st
    IN  [left EXCEPT !.roomId[ws] = Undefined]

\* leaveRoom that leaves ws.roomId set.
leaveRoom_KeepPointer(st, ws) ==
    IF Truthy(st.roomId[ws]) /\ st.roomId[ws] \in DOMAIN st.rooms
    THEN broadcastRoomCount([st EXCEPT !.rooms[st.roomId[ws]] = @ \ {ws}],
                            st.roomId[ws])
    ELSE st

leaveRoom(st, ws) ==
    LET r == st.roomId[ws]
        left == IF Truthy(r) /\ r \in DOMAIN st.rooms
                THEN broadcastRoomCount([st EXCEPT !.rooms[r] = @ \ {ws}], r)
                ELSE st
    IN  [left EXCEPT !.roomId[ws] = Undefined]

\* joinRoom that announces the new count to the other members only.
joinRoom_CountToOthers(st, ws, rid) ==
    LET s1 == IF Truthy(st.roomId[ws]) THEN leaveRoom(st, ws) ELSE st
        s2 == [s1 EXCEPT !.roomId[ws] = rid]
        s3 == IF rid \in DOMAIN s2.rooms
              THEN s2
              ELSE [s2 EXCEPT !.rooms = MapSet(@, rid, {})]
        s4 == [s3 EXCEPT !.rooms[rid] = @ \cup {ws}]
        s5 == send(s4, ws, RoomJoinedEnvelope(rid))
    IN  broadcastToRoom(s5, rid,
                        RoomCountEnvelope(rid, Cardinality(s5.rooms[rid])), ws)

\* joinRoom that sets the room pointer before it leaves the current room.
joinRoom_PointerBeforeLeave(st, ws, rid) ==
    LET s0 == [st EXCEPT !.roomId[ws] = rid]
        s1 == IF Truthy(st.roomId[ws]) THEN leaveRoom(s0, ws) ELSE s0
        s3 == IF rid \in DOMAIN s1.rooms
              THEN s1
              ELSE [s1 EXCEPT !.rooms = MapSet(@, rid, {})]
        s4 == [s3 EXCEPT !.rooms[rid] = @ \cup {ws}]
        s5 == send(s4, ws, RoomJoinedEnvelope(rid))
    IN  broadcastRoomCount(s5, rid)

\* joinRoom that broadcasts the count before it confirms the join.
joinRoom_CountFirst(st, ws, rid) ==
    LET s1 == IF Truthy(st.roomId[ws]) THEN leaveRoom(st, ws) ELSE st
        s2 == [s1 EXCEPT !.roomId[ws] = rid]
        s3 == IF rid \in DOMAIN s2.rooms
              THEN s2
              ELSE [s2 EXCEPT !.rooms = MapSet(@, rid, {})]
        s4 == [s3 EXCEPT !.rooms[rid] = @ \cup {ws}]
        s5 == broadcastRoomCount(s4, rid)
    IN  send(s5, ws, RoomJoinedEnvelope(rid))

joinRoom(st, ws, rid) ==
    LET s1 == IF Truthy(st.roomId[ws]) THEN leaveRoom(st, ws) ELSE st
        s2 == [s1 EXCEPT !.roomId[ws] = rid]
        s3 == IF rid \in DOMAIN s2.rooms
              THEN s2
              ELSE [s2 EXCEPT !.rooms = MapSet(@, rid, {})]
        s4 == [s3 EXCEPT !.rooms[rid] = @ \cup {ws}]
        s5 == send(s4, ws, RoomJoinedEnvelope(rid))
    IN  broadcastRoomCount(s5, rid)

\* handleMessage whose default branch answers with an error envelope.
handleMessage_ErrorOnUnknown(st, ws, message) ==
    CASE message.type = "room.join" ->
            joinRoom(st, ws, IF Truthy(message.roomId) THEN message.roomId ELSE "general")
      [] message.type = "chat.message" ->
            broadcastToRoom(st,
                            IF Truthy(st.roomId[ws]) THEN st.roomId[ws] ELSE "general",
                            ChatEnvelope(st.roomId[ws], message.content, st.userId[ws]),
                            ws)
      [] message.type = "room.leave" -> leaveRoom(st, ws)
      [] OTHER -> send(st, ws, ErrorEnvelope)

handleMessage(st, ws, message) ==
    CASE message.type = "room.join" ->
            joinRoom(st, ws, IF Truthy(message.roomId) THEN message.roomId ELSE "general")
      [] message.type = "chat.message" ->
            broadcastToRoom(st,
                            IF Truthy(st.roomId[ws]) THEN st.roomId[ws] ELSE "general",
                            ChatEnvelope(st.roomId[ws], message.content, st.userId[ws]),
                            ws)
      [] message.type = "room.leave" -> leaveRoom(st, ws)
      [] OTHER -> st

\* A 'message' listener whose catch only logs.
onMessage_Silent(st, ws, frame) ==
    IF frame.json \in {"invalid", "null"}
    THEN st
    ELSE handleMessage(st, ws, frame)

\* The 'message' listener: JSON.parse and handleMessage inside one try; the
\* catch answers with an error envelope.  JSON.parse throws on text that is
\* not JSON; handleMessage throws on null before it changes anything.
onMessage(st, ws, frame) ==
    IF frame.json \in {"invalid", "null"}
    THEN send(st, ws, ErrorEnvelope)
    ELSE handleMessage(st, ws, frame)

\* handleDisconnection that never prunes an identity whose set became empty.
handleDisconnection_NoPrune(st, ws) ==
    IF Truthy(st.userId[ws])
    THEN LET uid == st.userId[ws]
             s1 == IF uid \in DOMAIN st.userSockets
                   THEN [st EXCEPT !.userSockets[uid] = @ \ {ws}]
                   ELSE st
         IN  leaveRoom(s1, ws)
    ELSE st

\* handleDisconnection that leaves the identity index alone.
handleDisconnection_NoIndexDelete(st, ws) ==
    IF Truthy(st.userId[ws])
    THEN leaveRoom(st, ws)
    ELSE st

\* handleDisconnection that ends by announcing the count of the default room.
handleDisconnection_AnnounceGeneral(st, ws) ==
    IF Truthy(st.userId[ws])
    THEN LET uid == st.userId[ws]
             s1 == IF uid \in DOMAIN st.userSockets
                   THEN LET s == st.userSockets[uid] \ {ws}
                        IN  IF s = {}
                            THEN [st EXCEPT !.userSockets = MapDelete(@, uid)]
                            ELSE [st EXCEPT !.userSockets[uid] = s]
                   ELSE st
         IN  broadcastRoomCount(leaveRoom(s1, ws), "general")
    ELSE st

\* handleDisconnection without the call of leaveRoom.
handleDisconnection_NoLeave(st, ws) ==
    IF Truthy(st.userId[ws])
    THEN LET uid == st.userId[ws]
         IN  IF uid \in DOMAIN st.userSockets
             THEN LET s == st.userSockets[uid] \ {ws}
                  IN  IF s = {}
                      THEN [st EXCEPT !.userSockets = MapDelete(@, uid)]
                      ELSE [st EXCEPT !.userSockets[uid] = s]
             ELSE st
    ELSE st

handleDisconnection(st, ws) ==
    IF Truthy(st.userId[ws])
    THEN LET uid == st.userId[ws]
             s1 == IF uid \in DOMAIN st.userSockets
                   THEN LET s == st.userSockets[uid] \ {ws}
                        IN  IF s = {}
                            THEN [st EXCEPT !.userSockets = MapDelete(@, uid)]
                            ELSE [st EXCEPT !.userSockets[uid] = s]
                   ELSE st
         IN  leaveRoom(s1, ws)
    ELSE st

\* wss.clients: the sockets accepted and not yet closed.
clients(ph) == {w \in Conns : ph[w] \in {"OPEN", "CLOSING", "ERRORED"}}

\* broadcastToAll without the readyState test.
broadcastToAll_NoReadyCheck(st, message) ==
    [st EXCEPT !.sent =
        [w \in Conns |->
            IF w \in clients(st.phase)
            THEN Append(st.sent[w], message)
            ELSE st.sent[w]]]

\* broadcastToAll that walks the member set of the default room instead of
\* wss.clients.
broadcastToAll_GeneralOnly(st, message) ==
    LET to == {w \in clients(st.phase) :
                 st.readyState[w] = "OPEN" /\ st.roomId[w] = "general"}
    IN  [st EXCEPT !.sent = [w \in Conns |->
                               IF w \in to
                               THEN Append(st.sent[w], message)
                               ELSE st.sent[w]],
                   !.failed = @ \cup (to \cap st.broken)]

broadcastToAll(st, message) ==
    LET to == {w \in clients(st.phase) : st.readyState[w] = "OPEN"}
    IN  [st EXCEPT !.sent = [w \in Conns |->
                               IF w \in to
                               THEN Append(st.sent[w], message)
                               ELSE st.sent[w]],
                   !.failed = @ \cup (to \cap st.broken)]

broadcastTipCreated(st, tip) == broadcastToAll(st, TipEnvelope("tip.created", tip))

broadcastTipUpdated(st, tip) == broadcastToAll(st, TipEnvelope("tip.updated", tip))

broadcastTipDeleted(st, tipId) ==
    broadcastToAll(st, TipEnvelope("tip.deleted", "id:" \o tipId))

\* jwt.verify(token, secret).userId: the user id of a verifiable token;
\* undefined when the payload has none or when verify throws (the catch
\* leaves userId unset).
verify(token) == IF token = "valid" THEN "u1" ELSE Undefined

\* The try block of the 'connection' listener: the token is verified only
\* if one was presented and JWT_SECRET is set.
tokenUserId(token, jwtSecret) ==
    IF token # "absent" /\ jwtSecret THEN verify(token) ELSE Undefined

\* A 'connection' listener that greets only authenticated users.
onConnection_NoGuestWelcome(st, ws, token, guest) ==
    LET verified == tokenUserId(token, st.secret)
        uid      == IF Truthy(verified) THEN verified ELSE guest
        s1 == [st EXCEPT !.userId[ws] = uid]
        s2 == IF uid \in DOMAIN s1.userSockets
              THEN s1
              ELSE [s1 EXCEPT !.userSockets = MapSet(@, uid, {})]
        s3 == [s2 EXCEPT !.userSockets[uid] = @ \cup {ws}]
    IN  IF Truthy(verified) THEN send(s3, ws, WelcomeEnvelope) ELSE s3

\* A 'connection' listener that refuses a token it cannot verify: it sends
\* an error envelope and registers nothing.
onConnection_RejectBadToken(st, ws, token, guest) ==
    LET verified == tokenUserId(token, st.secret)
        uid      == IF Truthy(verified) THEN verified ELSE guest
        s1 == [st EXCEPT !.userId[ws] = uid]
        s2 == IF uid \in DOMAIN s1.userSockets
              THEN s1
              ELSE [s1 EXCEPT !.userSockets = MapSet(@, uid, {})]
        s3 == [s2 EXCEPT !.userSockets[uid] = @ \cup {ws}]
    IN  IF token # "absent" /\ ~Truthy(verified)
        THEN send(st, ws, ErrorEnvelope)
        ELSE send(s3, ws, WelcomeEnvelope)

\* The 'connection' listener up to the welcome envelope.
onConnection(st, ws, token, guest) ==
    LET verified == tokenUserId(token, st.secret)
        uid      == IF Truthy(verified) THEN verified ELSE guest
        s1 == [st EXCEPT !.userId[ws] = uid]
        s2 == IF uid \in DOMAIN s1.userSockets
              THEN s1
              ELSE [s1 EXCEPT !.userSockets = MapSet(@, uid, {})]
        s3 == [s2 EXCEPT !.userSockets[uid] = @ \cup {ws}]
    IN  send(s3, ws, WelcomeEnvelope)

----------------------------------------------------------------------------
\* The state machine.

NoSent == [w \in Conns |-> <<>>]

\* The manager state a handler starts from, the transport phases being ph.
Start(ph) ==
    [rooms |-> rooms, roomId |-> roomId, userSockets |-> userSockets,
     userId |-> userId, sent |-> NoSent, failed |-> {}, phase |-> ph,
     readyState |-> [w \in Conns |-> readyState(ph[w])],
     broken |-> broken, secret |-> secret]

CountWelcomes(s) == Cardinality({i \in 1..Len(s) : s[i].type = "welcome"})

\* The manager state a handler leaves behind.
Commit(st, op, ws, msg, token) ==
    /\ phase' = st.phase
    /\ userId' = st.userId
    /\ roomId' = st.roomId
    /\ rooms' = st.rooms
    /\ userSockets' = st.userSockets
    /\ sent' = st.sent
    /\ failed' = st.failed
    /\ UNCHANGED <<now, secret, broken>>
    /\ first' = [w \in Conns |->
                    IF first[w] = Undefined /\ st.sent[w] # <<>>
                    THEN st.sent[w][1].type
                    ELSE first[w]]
    /\ welcomes' = [w \in Conns |->
                    IF welcomes[w] + CountWelcomes(st.sent[w]) > 2
                    THEN 2
                    ELSE welcomes[w] + CountWelcomes(st.sent[w])]
    /\ last' = [op |-> op, ws |-> ws, msg |-> msg, token |-> token]
    /\ pre' = [rooms |-> rooms, roomId |-> roomId,
               userSockets |-> userSockets, phase |-> phase]

\* A handler of the manager ran, and nothing else happened.
Finish(st, op, ws, msg, token) ==
    /\ Commit(st, op, ws, msg, token)
    /\ UNCHANGED <<wire, events, wsManager, tips, req, client, net>>

NoMessage == Message(Undefined, Undefined, Undefined, Undefined)

\* No request is being served.
NoRequest ==
    [method |-> "none", id |-> Undefined, pc |-> "idle", result |-> "none",
     status |-> 0, trace |-> <<>>]

\* The ChatProvider before its effect ran (useReducer's initialState, the
\* refs' initial values); no WebSocket has been created.
\* timers are the pending setTimeout timers, timeout the handle of the one
\* set last (0: none yet); readyState is the state of each WebSocket the tab
\* created ("none": not created).  joins counts the user's joinRoom calls,
\* selected is the room of the latest one, failures counts the sockets that
\* failed in a row since a socket last opened.
NoClient ==
    [mounted |-> FALSE, unmounted |-> FALSE,
     currentRoom |-> "general", currentRoomRef |-> "general",
     isConnected |-> FALSE, retries |-> 0,
     timeout |-> 0, timers |-> {}, timerCount |-> 0,
     wsRef |-> NoSocket, readyState |-> [w \in Conns |-> "none"],
     joins |-> 0, selected |-> "general", failures |-> 0]

NoFrames == [c2s |-> [w \in Conns |-> <<>>], s2c |-> [w \in Conns |-> <<>>]]

\* Everything outside the manager, the manager having been constructed.
InitRest ==
    /\ wire = [w \in Conns |-> <<>>]
    /\ events = 0
    /\ wsManager = TRUE
    /\ tips = {}
    /\ req = NoRequest
    /\ client = NoClient
    /\ net = NoFrames

\* The manager as its constructor leaves it.
InitManager ==
    /\ phase = [w \in Conns |-> "new"]
    /\ userId = [w \in Conns |-> Undefined]
    /\ roomId = [w \in Conns |-> Undefined]
    /\ rooms = EmptyMap
    /\ userSockets = EmptyMap
    /\ sent = NoSent
    /\ failed = {}
    /\ now = 0
    /\ secret = TRUE
    /\ broken = {}
    /\ first = [w \in Conns |-> Undefined]
    /\ welcomes = [w \in Conns |-> 0]
    /\ last = [op |-> "init", ws |-> NoSocket, msg |-> NoMessage, token |-> Undefined]
    /\ pre = [rooms |-> EmptyMap, roomId |-> [w \in Conns |-> Undefined],
              userSockets |-> EmptyMap, phase |-> [w \in Conns |-> "new"]]

Init == InitRest /\ InitManager

\* A client connects: the server accepts the next socket and runs the
\* 'connection' listener.
Connect(ws, token, guest) ==
    /\ phase[ws] = "new"
    /\ \A w \in Conns : w < ws => phase[w] # "new"
    /\ Finish(onConnection(Start([phase EXCEPT ![ws] = "OPEN"]), ws, token, guest),
              "connection", ws, NoMessage, token)

\* A frame arrives on a socket: the 'message' listener.  A socket whose
\* 'error' was emitted for a failed write can still deliver queued frames.
Receive(ws, frame) ==
    /\ phase[ws] \in {"OPEN", "ERRORED"}
    /\ Finish(onMessage(Start(phase), ws, frame), "message", ws, frame, Undefined)

\* The closing handshake starts (the peer's close frame, the socket ending):
\* readyState becomes CLOSING; no listener of the manager runs yet.
TransportClosing(ws) ==
    /\ phase[ws] = "OPEN"
    /\ Finish(Start([phase EXCEPT ![ws] = "CLOSING"]), "closing", ws, NoMessage, Undefined)

\* 'error' is emitted (once, with the socket closing): the 'error' listener.
ErrorEvent(ws) ==
    /\ phase[ws] \in {"OPEN", "CLOSING"}
    /\ Finish(handleDisconnection(Start([phase EXCEPT ![ws] = "ERRORED"]), ws),
              "error", ws, NoMessage, Undefined)

\* 'close' is emitted: the socket leaves wss.clients, the 'close' listener runs.
CloseEvent(ws) ==
    /\ phase[ws] \in {"OPEN", "CLOSING", "ERRORED"}
    /\ Finish(handleDisconnection(Start([phase EXCEPT ![ws] = "CLOSED"]), ws),
              "close", ws, NoMessage, Undefined)

\* The REST layer announces a tip.
TipCreated(tip) ==
    Finish(broadcastTipCreated(Start(phase), "tip:" \o tip), "tip.created", NoSocket,
           NoMessage, Undefined)

TipUpdated(tip) ==
    Finish(broadcastTipUpdated(Start(phase), "tip:" \o tip), "tip.updated", NoSocket,
           NoMessage, Undefined)

TipDeleted(tip) ==
    Finish(broadcastTipDeleted(Start(phase), tip), "tip.deleted", NoSocket, NoMessage,
           Undefined)

Next ==
    \/ \E ws \in Conns, token \in Tokens, guest \in GuestIds : Connect(ws, token, guest)
    \/ \E ws \in Conns, frame \in Frames : Receive(ws, frame)
    \/ \E ws \in Conns : TransportClosing(ws)
    \/ \E ws \in Conns : ErrorEvent(ws)
    \/ \E ws \in Conns : CloseEvent(ws)
    \/ \E tip \in TipIds : TipCreated(tip)
    \/ \E tip \in TipIds : TipUpdated(tip)
    \/ \E tip \in TipIds : TipDeleted(tip)

Spec == Init /\ [][Next]_vars

\* What a handler writes.
handlerVars ==
    <<phase, userId, roomId, rooms, userSockets, sent, failed, first, welcomes, last, pre>>

\* A millisecond passes.
Tick ==
    /\ now < MaxClock
    /\ now' = now + 1
    /\ UNCHANGED <<handlerVars, secret, broken>>
    /\ UNCHANGED <<wire, events, wsManager, tips, req, client, net>>

\* The transport of an open socket breaks: writes no longer go out, and
\* neither 'error' nor 'close' has been emitted yet.
TransportBreaks(ws) ==
    /\ phase[ws] = "OPEN"
    /\ ws \notin broken
    /\ broken' = broken \cup {ws}
    /\ UNCHANGED <<handlerVars, now, secret>>
    /\ UNCHANGED <<wire, events, wsManager, tips, req, client, net>>

\* Identity resolution: every kind of credential, JWT_SECRET set or not,
\* guest identities built from the clock and the random number.
InitIdentity ==
    /\ InitRest
    /\ phase = [w \in Conns |-> "new"]
    /\ userId = [w \in Conns |-> Undefined]
    /\ roomId = [w \in Conns |-> Undefined]
    /\ rooms = EmptyMap
    /\ userSockets = EmptyMap
    /\ sent = NoSent
    /\ failed = {}
    /\ now = 0
    /\ secret \in BOOLEAN
    /\ broken = {}
    /\ first = [w \in Conns |-> Undefined]
    /\ welcomes = [w \in Conns |-> 0]
    /\ last = [op |-> "init", ws |-> NoSocket, msg |-> NoMessage, token |-> Undefined]
    /\ pre = [rooms |-> EmptyMap, roomId |-> [w \in Conns |-> Undefined],
              userSockets |-> EmptyMap, phase |-> [w \in Conns |-> "new"]]

NextIdentity ==
    \/ \E ws \in Conns, token \in IdentityTokens, r \in Randoms :
            Connect(ws, token, guestId(now, r))
    \/ Tick
    \/ \E ws \in Conns : Receive(ws, Message("object", "room.join", Undefined, Undefined))
    \/ \E ws \in Conns : ErrorEvent(ws)
    \/ \E ws \in Conns : CloseEvent(ws)

SpecIdentity == InitIdentity /\ [][NextIdentity]_vars

\* Delivery: sends that fail on a broken transport.
DeliveryFrames ==
    {Message("object", "room.join", Undefined, Undefined),
     Message("object", "chat.message", Undefined, "hi"),
     Message("object", "room.leave", Undefined, Undefined)}

NextDelivery ==
    \/ \E ws \in Conns, guest \in GuestIds : Connect(ws, "absent", guest)
    \/ \E ws \in Conns, frame \in DeliveryFrames : Receive(ws, frame)
    \/ \E ws \in Conns : TransportBreaks(ws)
    \/ \E ws \in Conns : ErrorEvent(ws)
    \/ \E ws \in Conns : CloseEvent(ws)
    \/ \E tip \in TipIds : TipDeleted(tip)

SpecDelivery == Init /\ [][NextDelivery]_vars

\* The tips routes (routes/tips.ts) and the module variable wsManager.

\* The notification a route issues after its persistence step.
NotificationOf(method) ==
    CASE method = "POST" -> "tip.created"
      [] method = "PUT" -> "tip.updated"
      [] method = "DELETE" -> "tip.deleted"

\* The status of a route's success response.
SuccessOf(method) == IF method = "POST" THEN 201 ELSE 200

\* res.status(code).json(...): the handler returns.
respond(r, code) ==
    [r EXCEPT !.pc = "idle", !.status = code, !.trace = Append(@, "response")]

\* The inner try of a route: getWebSocketManager() throws while wsManager
\* is unset, the catch logs a warning; otherwise the broadcast is issued.
notify(r, mgr) ==
    [r EXCEPT !.trace = Append(@, IF mgr THEN NotificationOf(r.method) ELSE "warn")]

\* What a route does after its persistence step succeeded: broadcast,
\* then the success response.
persisted_NoInnerTry(r, mgr) ==
    IF mgr
    THEN respond(notify([r EXCEPT !.trace = Append(@, "persisted")], mgr),
                 SuccessOf(r.method))
    ELSE respond([r EXCEPT !.trace = Append(@, "persisted")], 500)

\* A route that answers before it broadcasts.
persisted_RespondFirst(r, mgr) ==
    notify(respond([r EXCEPT !.trace = Append(@, "persisted")], SuccessOf(r.method)), mgr)

persisted(r, mgr) ==
    respond(notify([r EXCEPT !.trace = Append(@, "persisted")], mgr), SuccessOf(r.method))

\* The broadcast of the notification, if there is a manager to issue it.
Broadcast(method, id) ==
    IF wsManager
    THEN CASE method = "POST" ->
                Commit(broadcastTipCreated(Start(phase), "tip:" \o id), "tip.created",
                       NoSocket, NoMessage, Undefined)
           [] method = "PUT" ->
                Commit(broadcastTipUpdated(Start(phase), "tip:" \o id), "tip.updated",
                       NoSocket, NoMessage, Undefined)
           [] method = "DELETE" ->
                Commit(broadcastTipDeleted(Start(phase), id), "tip.deleted",
                       NoSocket, NoMessage, Undefined)
    ELSE UNCHANGED serverVars

\* A request reaches a route handler (authenticate and requireAdmin let it
\* pass); the handler runs up to its first await.  valid is the outcome of
\* validationResult(req); a POST creates a document with a new id.
TipRequest(method, id, valid) ==
    /\ req.pc = "idle"
    /\ method = "POST" => id \notin tips
    /\ LET r == [method |-> method, id |-> id, pc |-> "idle", result |-> "none",
                 status |-> 0, trace |-> <<>>]
       IN  req' = IF method \in {"POST", "PUT"} /\ ~valid
                  THEN respond(r, 400)
                  ELSE [r EXCEPT !.pc = CASE method = "POST" -> "save"
                                          [] method = "PUT" -> "find"
                                          [] method = "DELETE" -> "delete"]
    /\ UNCHANGED <<serverVars, wire, events, wsManager, tips, client, net>>

\* An awaited database call fails: the outer catch answers 500.
DbFails ==
    /\ req.pc \in {"save", "find", "delete"}
    /\ req' = respond(req, 500)
    /\ UNCHANGED <<serverVars, wire, events, wsManager, tips, client, net>>

\* await Tip.findById(req.params.id) of the PUT route returns.
Found ==
    /\ req.pc = "find"
    /\ req' = IF req.id \in tips THEN [req EXCEPT !.pc = "save"] ELSE respond(req, 404)
    /\ UNCHANGED <<serverVars, wire, events, wsManager, tips, client, net>>

\* await tip.save() returns: the rest of the POST and PUT routes.
Saved ==
    /\ req.pc = "save"
    /\ tips' = tips \cup {req.id}
    /\ req' = persisted(req, wsManager)
    /\ Broadcast(req.method, req.id)
    /\ UNCHANGED <<wire, events, wsManager, client, net>>

\* await Tip.findByIdAndDelete(req.params.id) returns: the rest of the
\* DELETE route.
Deleted ==
    /\ req.pc = "delete"
    /\ IF req.id \in tips
       THEN /\ tips' = tips \ {req.id}
            /\ req' = persisted(req, wsManager)
            /\ Broadcast(req.method, req.id)
       ELSE /\ req' = respond(req, 404)
            /\ UNCHANGED <<serverVars, tips>>
    /\ UNCHANGED <<wire, events, wsManager, client, net>>

\* setupWebSocket(server): the manager is constructed.
SetupWebSocket ==
    /\ ~wsManager
    /\ wsManager' = TRUE
    /\ UNCHANGED <<serverVars, wire, events, tips, req, client, net>>

\* The process starts without a manager; when setupWebSocket is called is
\* up to the entry point.
InitTips ==
    /\ InitManager
    /\ wire = [w \in Conns |-> <<>>]
    /\ events = 0
    /\ wsManager = FALSE
    /\ tips = {}
    /\ req = NoRequest
    /\ client = NoClient
    /\ net = NoFrames

NextTips ==
    \/ SetupWebSocket
    \/ \E ws \in Conns, guest \in GuestIds : wsManager /\ Connect(ws, "absent", guest)
    \/ \E ws \in Conns : Receive(ws, Message("object", "room.join", Undefined, Undefined))
    \/ \E ws \in Conns : CloseEvent(ws)
    \/ \E method \in {"POST", "PUT", "DELETE"}, id \in TipIds, valid \in BOOLEAN :
            TipRequest(method, id, valid)
    \/ DbFails
    \/ Found
    \/ Saved
    \/ Deleted

SpecTips == InitTips /\ [][NextTips]_vars

----------------------------------------------------------------------------
\* The chat client (ChatProvider) of one browser tab, talking to the manager.

\* The user's joinRoom calls the model follows.
MaxJoins == 2

\* Math.min(30000, 1000 * Math.pow(2, retries))
MaxDelay == 30000

BaseDelay == 1000

Min(a, b) == IF a <= b THEN a ELSE b

\* scheduleReconnect: the handler of both onclose and onerror.
scheduleReconnect(c) ==
    LET delay == Min(MaxDelay, BaseDelay * 2 ^ c.retries)
        id    == c.timerCount + 1
    IN  [c EXCEPT !.isConnected = FALSE,
                  !.retries = @ + 1,
                  !.timers = {t \in @ : t.id # c.timeout} \cup {[id |-> id, delay |-> delay]},
                  !.timeout = id,
                  !.timerCount = id]

\* connect(): new WebSocket(...), wsRef.current = ws; s is the new socket.
connect(c, s) == [c EXCEPT !.readyState[s] = "CONNECTING", !.wsRef = s]

\* The socket the next new WebSocket(...) yields (0 when the model has none left).
NextSocket(c) ==
    IF \E w \in Conns : c.readyState[w] = "none"
    THEN CHOOSE w \in Conns :
            /\ c.readyState[w] = "none"
            /\ \A v \in Conns : v < w => c.readyState[v] # "none"
    ELSE NoSocket

\* ws.onopen, apart from the room.join it sends.
onopen(c, s) ==
    [c EXCEPT !.readyState[s] = "OPEN", !.retries = 0, !.isConnected = TRUE,
              !.failures = 0]

\* ws.onmessage.
onmessage(c, msg) ==
    CASE msg.type = "welcome" ->
            [c EXCEPT !.currentRoomRef = IF Truthy(msg.roomId) THEN msg.roomId ELSE @]
      [] msg.type = "room.joined" ->
            [c EXCEPT !.currentRoomRef = msg.roomId, !.currentRoom = msg.roomId]
      [] OTHER -> c

\* joinRoom of the ChatProvider, apart from the room.join it sends.
chatJoinRoom(c, rid) ==
    [c EXCEPT !.currentRoom = rid, !.currentRoomRef = rid, !.joins = @ + 1,
              !.selected = rid]

\* The effect's cleanup: clearTimeout(timeout); wsRef.current?.close();
\* wsRef.current = null.
cleanup(c) ==
    LET s == c.wsRef
        closed == IF s # NoSocket /\ c.readyState[s] \in {"CONNECTING", "OPEN"}
                  THEN [c EXCEPT !.readyState[s] = "CLOSING"]
                  ELSE c
    IN  [closed EXCEPT !.timers = {t \in @ : t.id # c.timeout},
                       !.wsRef = NoSocket,
                       !.mounted = FALSE, !.unmounted = TRUE]

\* The frames of socket s are lost.
Lose(n, s) == [n EXCEPT !.c2s[s] = <<>>, !.s2c[s] = <<>>]

\* The effect runs: connect().
Mount ==
    /\ ~client.mounted /\ ~client.unmounted
    /\ client' = connect([client EXCEPT !.mounted = TRUE], NextSocket(client))
    /\ UNCHANGED <<serverVars, wire, events, wsManager, tips, req, net>>

\* The server accepts the socket: the 'connection' listener runs and its
\* welcome is on its way.
ServerAccept(s, guest) ==
    /\ client.readyState[s] = "CONNECTING"
    /\ phase[s] = "new"
    /\ LET st == onConnection(Start([phase EXCEPT ![s] = "OPEN"]), s, "absent", guest)
       IN  /\ Commit(st, "connection", s, NoMessage, "absent")
           /\ net' = [net EXCEPT !.s2c[s] = @ \o st.sent[s]]
    /\ UNCHANGED <<wire, events, wsManager, tips, req, client>>

\* The 'open' event of the tab's socket: onopen sends room.join for the
\* room of currentRoomRef.
ClientOpen(s) ==
    /\ client.readyState[s] = "CONNECTING"
    /\ phase[s] = "OPEN"
    /\ client' = onopen(client, s)
    /\ net' = [net EXCEPT !.c2s[s] =
                 Append(@, Message("object", "room.join", client.currentRoomRef, Undefined))]
    /\ UNCHANGED <<serverVars, wire, events, wsManager, tips, req>>

\* A frame reaches the tab: onmessage.
ClientMessage(s) ==
    /\ client.readyState[s] = "OPEN"
    /\ net.s2c[s] # <<>>
    /\ client' = onmessage(client, Head(net.s2c[s]))
    /\ net' = [net EXCEPT !.s2c[s] = Tail(@)]
    /\ UNCHANGED <<serverVars, wire, events, wsManager, tips, req>>

\* A frame of the tab reaches the server: the 'message' listener.
ServerReceive(s) ==
    /\ phase[s] = "OPEN"
    /\ net.c2s[s] # <<>>
    /\ LET frame == Head(net.c2s[s])
           st == onMessage(Start(phase), s, frame)
       IN  /\ Commit(st, "message", s, frame, Undefined)
           /\ net' = [net EXCEPT !.c2s[s] = Tail(@),
                                 !.s2c = [w \in Conns |->
                                            IF client.readyState[w] \in {"CONNECTING", "OPEN"}
                                            THEN net.s2c[w] \o st.sent[w]
                                            ELSE net.s2c[w]]]
    /\ UNCHANGED <<wire, events, wsManager, tips, req, client>>

\* The user picks a room: joinRoom(roomId).
UserJoinRoom(rid) ==
    /\ client.mounted
    /\ client.joins < MaxJoins
    /\ client' = chatJoinRoom(client, rid)
    /\ net' = IF client.wsRef # NoSocket /\ client.readyState[client.wsRef] = "OPEN"
              THEN [net EXCEPT !.c2s[client.wsRef] =
                        Append(@, Message("object", "room.join", rid, Undefined))]
              ELSE net
    /\ UNCHANGED <<serverVars, wire, events, wsManager, tips, req>>

\* The connection attempt or the connection fails: the browser fires
\* 'error' and then 'close' in one task; a lost connection may also end
\* with 'close' alone.
SocketFails(s, withError) ==
    /\ client.readyState[s] \in {"CONNECTING", "OPEN"}
    /\ client.readyState[s] = "CONNECTING" => withError
    /\ LET c1 == [client EXCEPT !.readyState[s] = "CLOSED", !.failures = @ + 1]
           c2 == IF withError THEN scheduleReconnect(c1) ELSE c1
       IN  client' = scheduleReconnect(c2)
    /\ net' = Lose(net, s)
    /\ UNCHANGED <<serverVars, wire, events, wsManager, tips, req>>

\* The closing handshake of a socket the tab closed completes: 'close'.
SocketCloses(s) ==
    /\ client.readyState[s] = "CLOSING"
    /\ client' = scheduleReconnect([client EXCEPT !.readyState[s] = "CLOSED"])
    /\ net' = Lose(net, s)
    /\ UNCHANGED <<serverVars, wire, events, wsManager, tips, req>>

\* The server learns that the tab's socket is gone: its 'close' listener.
ServerClose(s) ==
    /\ phase[s] = "OPEN"
    /\ client.readyState[s] \in {"CLOSING", "CLOSED"}
    /\ Commit(handleDisconnection(Start([phase EXCEPT ![s] = "CLOSED"]), s),
              "close", s, NoMessage, Undefined)
    /\ net' = [net EXCEPT !.c2s[s] = <<>>]
    /\ UNCHANGED <<wire, events, wsManager, tips, req, client>>

\* A pending timer fires: connect().
TimerFires(t) ==
    /\ t \in client.timers
    /\ NextSocket(client) # NoSocket
    /\ client' = connect([client EXCEPT !.timers = @ \ {t}], NextSocket(client))
    /\ UNCHANGED <<serverVars, wire, events, wsManager, tips, req, net>>

\* The provider unmounts: the effect's cleanup runs.
Unmount ==
    /\ client.mounted
    /\ client' = cleanup(client)
    /\ UNCHANGED <<serverVars, wire, events, wsManager, tips, req, net>>

NextClient ==
    \/ Mount
    \/ \E s \in Conns, guest \in GuestIds : ServerAccept(s, guest)
    \/ \E s \in Conns : ClientOpen(s)
    \/ \E s \in Conns : ClientMessage(s)
    \/ \E s \in Conns : ServerReceive(s)
    \/ \E rid \in RoomIds : UserJoinRoom(rid)
    \/ \E s \in Conns, withError \in BOOLEAN : SocketFails(s, withError)
    \/ \E s \in Conns : SocketCloses(s)
    \/ \E s \in Conns : ServerClose(s)
    \/ \E t \in client.timers : TimerFires(t)
    \/ Unmount

SpecClient == Init /\ [][NextClient]_vars

----------------------------------------------------------------------------
\* Order of delivery: the sockets' streams, event by event.

\* Listener runs the stream model follows.
MaxEvents == 6

OrderFrames ==
    {Message("object", "room.join", Undefined, Undefined),
     Message("object", "room.join", "r1", Undefined),
     Message("object", "chat.message", Undefined, "hi"),
     Message("object", "room.leave", Undefined, Undefined)}

\* What ws.send wrote to one socket during event number ev: a socket is a
\* byte stream, the peer reads the frames in the order they were written.
Written(s, ev) ==
    [i \in 1..Len(s) |->
        [type |-> s[i].type, roomId |-> s[i].roomId, userId |-> s[i].userId, ev |-> ev]]

\* A handler ran; what it sent is appended to the sockets' streams.
OrderCommit(st, op, ws, msg, token) ==
    /\ events < MaxEvents
    /\ Commit(st, op, ws, msg, token)
    /\ events' = events + 1
    /\ wire' = [w \in Conns |->
                   IF w \in st.failed
                   THEN wire[w]
                   ELSE wire[w] \o Written(st.sent[w], events + 1)]
    /\ UNCHANGED <<wsManager, tips, req, client, net>>

OrderConnect(ws, guest) ==
    /\ phase[ws] = "new"
    /\ \A w \in Conns : w < ws => phase[w] # "new"
    /\ OrderCommit(onConnection(Start([phase EXCEPT ![ws] = "OPEN"]), ws, "absent", guest),
                   "connection", ws, NoMessage, "absent")

OrderReceive(ws, frame) ==
    /\ phase[ws] = "OPEN"
    /\ OrderCommit(onMessage(Start(phase), ws, frame), "message", ws, frame, Undefined)

NextOrder ==
    \/ \E ws \in Conns, guest \in GuestIds : OrderConnect(ws, guest)
    \/ \E ws \in Conns, frame \in OrderFrames : OrderReceive(ws, frame)

SpecOrder == Init /\ [][NextOrder]_vars

----------------------------------------------------------------------------
\* Vocabulary of the properties.

\* The member set of room r in the rooms map m (empty for an unknown room).
Members(m, r) == IF r \in DOMAIN m THEN m[r] ELSE {}

\* The rooms of the map m that hold socket w.
RoomsOf(m, w) == {r \in DOMAIN m : w \in m[r]}

IsOpen(w) == readyState(phase[w]) = "OPEN"

OpenMembers(m, r) == {w \in Members(m, r) : IsOpen(w)}

\* The envelopes of the sequence s that are a room.count for room r.
CountsFor(s, r) ==
    LET IsCount(e) == e.type = "room.count" /\ e.roomId = r
    IN  SelectSeq(s, IsCount)

TypesIn(s) == {s[i].type : i \in 1..Len(s)}

BroadcastTypes == {"room.count", "chat.message", "tip.created", "tip.updated", "tip.deleted"}

\* The latest event was the frame {type: t, ...} on some socket.
LastIsFrame(t) ==
    last.op = "message" /\ last.msg.json = "object" /\ last.msg.type = t

\* The room a room.join frame asks for.
JoinTarget(msg) == IF Truthy(msg.roomId) THEN msg.roomId ELSE "general"

RegistryUnchanged ==
    /\ rooms = pre.rooms
    /\ roomId = pre.roomId
    /\ userSockets = pre.userSockets

----------------------------------------------------------------------------
\* C1: a connection is in the member set of at most one room at any time;
\* when a connection that joined X processes room.join Y with X # Y, it ends
\* a member of Y only, the remaining members of X (those a broadcast
\* reaches: open transports) are sent room.count for X with X's size reduced
\* by one, and the members of Y are sent room.count for Y with Y's size
\* increased by one.
C1_AtMostOneRoom ==
    /\ \A w \in Conns : Cardinality(RoomsOf(rooms, w)) <= 1
    /\ \A Y \in RoomIds :
        (LastIsFrame("room.join") /\ JoinTarget(last.msg) = Y
           /\ Truthy(pre.roomId[last.ws]) /\ pre.roomId[last.ws] # Y)
        => LET ws == last.ws
               X  == pre.roomId[ws]
           IN  /\ RoomsOf(rooms, ws) = {Y}
               /\ rooms[X] = pre.rooms[X] \ {ws}
               /\ \A w \in OpenMembers(rooms, X) :
                    CountsFor(sent[w], X)
                      = <<RoomCountEnvelope(X, Cardinality(pre.rooms[X]) - 1)>>
               /\ \A w \in OpenMembers(rooms, Y) :
                    CountsFor(sent[w], Y)
                      = <<RoomCountEnvelope(Y, Cardinality(Members(pre.rooms, Y)) + 1)>>

\* C1 witness: a socket switched from one room to another while the room it
\* left still has an open member, who was sent the reduced count, and the
\* switching socket was sent the count of the room it entered.
C1_Witness ==
    /\ LastIsFrame("room.join")
    /\ Truthy(pre.roomId[last.ws])
    /\ pre.roomId[last.ws] # JoinTarget(last.msg)
    /\ \E w \in Conns \ {last.ws} :
        /\ w \in OpenMembers(rooms, pre.roomId[last.ws])
        /\ sent[w] = <<RoomCountEnvelope(pre.roomId[last.ws], 1)>>
    /\ IsOpen(last.ws)
    /\ RoomCountEnvelope(JoinTarget(last.msg), 1) \in {sent[last.ws][i] : i \in 1..Len(sent[last.ws])}

\* C2 (as claimed): after a join, the room.count that ends the join carries
\* the number of members of the joined room whose transport is open, and
\* every open member of the room is sent it last.
C2_CountIsOpenMembers ==
    \A R \in RoomIds :
        (LastIsFrame("room.join") /\ JoinTarget(last.msg) = R)
        => /\ \A w \in Conns : \A i \in 1..Len(sent[w]) :
                (sent[w][i].type = "room.count" /\ sent[w][i].roomId = R /\ i = Len(sent[w]))
                => sent[w][i].count = Cardinality(OpenMembers(rooms, R))
           /\ \A w \in OpenMembers(rooms, R) :
                /\ sent[w] # <<>>
                /\ sent[w][Len(sent[w])].type = "room.count"
                /\ sent[w][Len(sent[w])].roomId = R

\* C3: a chat.message from a member of room R goes to every other member of
\* R whose transport is open, and to nobody else: not to the sender, not to
\* a socket of another room or of no room.
C3_ChatFanOut ==
    (LastIsFrame("chat.message") /\ Truthy(pre.roomId[last.ws]))
    => LET ws == last.ws
           R  == pre.roomId[ws]
       IN  /\ ws \in Members(rooms, R)
           /\ \A w \in Conns :
                sent[w] = IF w \in OpenMembers(rooms, R) /\ w # ws
                          THEN <<ChatEnvelope(R, last.msg.content, userId[ws])>>
                          ELSE <<>>
           /\ \A w \in Conns : sent[w] # <<>> => RoomsOf(rooms, w) = {R} /\ roomId[w] = R

\* C3 witness: a chat.message reached another member of the sender's room.
C3_Witness ==
    /\ LastIsFrame("chat.message")
    /\ Truthy(pre.roomId[last.ws])
    /\ \E w \in Conns \ {last.ws} : sent[w] # <<>> /\ sent[w][1].type = "chat.message"
    /\ sent[last.ws] = <<>>

\* C4: the disconnect of a member of room R (the 'error' or the 'close'
\* event that finds it a member) broadcasts exactly one room.count for R,
\* carrying R's size after the removal, to the remaining members; the
\* 'close' that follows an 'error' finds it in no room and broadcasts
\* nothing; and a disconnected socket is never again a recipient of a
\* broadcast.
C4_DisconnectBroadcast ==
    /\ last.op \in {"error", "close"}
        => LET ws == last.ws
               R  == pre.roomId[ws]
           IN  IF Truthy(R)
               THEN /\ rooms[R] = pre.rooms[R] \ {ws}
                    /\ ws \in pre.rooms[R]
                    /\ \A w \in Conns :
                        sent[w] = IF w \in OpenMembers(rooms, R)
                                  THEN <<RoomCountEnvelope(R, Cardinality(pre.rooms[R]) - 1)>>
                                  ELSE <<>>
               ELSE sent = NoSent /\ rooms = pre.rooms
    /\ \A w \in Conns :
        /\ phase[w] \in {"ERRORED", "CLOSED"} => TypesIn(sent[w]) \cap BroadcastTypes = {}
        /\ phase[w] = "CLOSED" => sent[w] = <<>> /\ RoomsOf(rooms, w) = {}

\* C4 witness: a member disconnected and another member of its room was
\* sent the reduced count.
C4_Witness ==
    /\ last.op \in {"error", "close"}
    /\ Truthy(pre.roomId[last.ws])
    /\ \E w \in Conns \ {last.ws} :
        sent[w] = <<RoomCountEnvelope(pre.roomId[last.ws], 1)>>

\* C5: a frame that is not JSON is answered with exactly one error envelope
\* to its sender and nothing to anyone else; rooms, room pointers and the
\* identity index do not change and the sender stays tracked.
C5_UnparseableFrame ==
    (last.op = "message" /\ last.msg.json = "invalid")
    => /\ sent = [NoSent EXCEPT ![last.ws] = <<ErrorEnvelope>>]
       /\ RegistryUnchanged
       /\ phase = pre.phase
       /\ last.ws \in clients(phase)

\* C5 witness: an unparseable frame arrived on a socket that shares a room
\* with another open socket.
C5_Witness ==
    /\ last.op = "message" /\ last.msg.json = "invalid"
    /\ Truthy(roomId[last.ws])
    /\ OpenMembers(rooms, roomId[last.ws]) \ {last.ws} # {}
    /\ sent[last.ws] = <<ErrorEnvelope>>

\* C6 (as claimed): a frame that is JSON but lacks a required field (no
\* type, or a chat.message with no content) is answered with an error
\* envelope to its sender only and leaves the connection as it was.
C6_MissingFieldError ==
    (/\ last.op = "message"
     /\ last.msg.json = "object"
     /\ \/ last.msg.type = Undefined
        \/ last.msg.type = "chat.message" /\ last.msg.content = Undefined)
    => /\ sent = [NoSent EXCEPT ![last.ws] = <<ErrorEnvelope>>]
       /\ phase = pre.phase

\* C7: an envelope whose type is none of room.join, chat.message,
\* room.leave is ignored: nothing is sent to anyone, and rooms, room
\* pointers and the identity index stay as they were.
C7_UnknownTypeIgnored ==
    (/\ last.op = "message"
     /\ last.msg.json = "object"
     /\ last.msg.type \notin {"room.join", "chat.message", "room.leave"})
    => /\ sent = NoSent
       /\ RegistryUnchanged
       /\ phase = pre.phase

\* C7 witness: a frame of an unknown type arrived on a socket that shares a
\* room with another open socket.
C7_Witness ==
    /\ last.op = "message" /\ last.msg.json = "object" /\ last.msg.type = "ping"
    /\ Truthy(roomId[last.ws])
    /\ OpenMembers(rooms, roomId[last.ws]) \ {last.ws} # {}
    /\ IsOpen(last.ws)

\* C8: every accepted connection is sent exactly one welcome envelope, and
\* it is the first envelope the connection is sent; nothing is sent to a
\* socket before it is accepted.
C8_WelcomeOnceAndFirst ==
    /\ \A w \in Conns :
        IF phase[w] = "new"
        THEN welcomes[w] = 0 /\ first[w] = Undefined /\ sent[w] = <<>>
        ELSE welcomes[w] = 1 /\ first[w] = "welcome"
    /\ last.op = "connection" => sent[last.ws] = <<WelcomeEnvelope>>

\* C8 witness: a connection that was welcomed first is later sent a
\* room.count for a room it shares with another connection.
C8_Witness ==
    \E w \in Conns :
        /\ first[w] = "welcome" /\ welcomes[w] = 1
        /\ last.op = "message" /\ last.ws # w
        /\ sent[w] # <<>> /\ sent[w][1].type = "room.count"

\* C9: room.join for R adds the socket to R, sends room.joined{R} to the
\* joiner and to nobody else, then broadcasts room.count{R} with R's size to
\* every open member of R, the joiner included; the joiner is sent
\* room.joined before that room.count.
C9_JoinProtocol ==
    \A R \in RoomIds :
        (LastIsFrame("room.join") /\ JoinTarget(last.msg) = R)
        => LET ws == last.ws
               n  == Cardinality(Members(rooms, R))
           IN  /\ Members(rooms, R) = Members(pre.rooms, R) \cup {ws}
               /\ roomId[ws] = R
               /\ sent[ws] = <<RoomJoinedEnvelope(R)>>
                             \o (IF IsOpen(ws) THEN <<RoomCountEnvelope(R, n)>> ELSE <<>>)
               /\ \A w \in Conns \ {ws} : "room.joined" \notin TypesIn(sent[w])
               /\ \A w \in OpenMembers(rooms, R) :
                    /\ sent[w] # <<>>
                    /\ sent[w][Len(sent[w])] = RoomCountEnvelope(R, n)

\* C9 witness: a socket joined a room that already had an open member; both
\* were sent the count 2 and only the joiner the confirmation.
C9_Witness ==
    /\ LastIsFrame("room.join")
    /\ sent[last.ws] = <<RoomJoinedEnvelope(JoinTarget(last.msg)),
                         RoomCountEnvelope(JoinTarget(last.msg), 2)>>
    /\ \E w \in Conns \ {last.ws} :
        sent[w] = <<RoomCountEnvelope(JoinTarget(last.msg), 2)>>

\* C10: room.leave from a socket in no room sends nothing and changes
\* nothing; room.leave from a member of R removes it from R, clears its
\* room pointer, broadcasts room.count{R} with the reduced size to the
\* remaining members and not to the leaver, and changes no other room.
C10_LeaveRoom ==
    LastIsFrame("room.leave")
    => LET ws == last.ws
           R  == pre.roomId[ws]
       IN  /\ userSockets = pre.userSockets
           /\ phase = pre.phase
           /\ DOMAIN rooms = DOMAIN pre.rooms
           /\ IF Truthy(R)
              THEN /\ ws \in pre.rooms[R]
                   /\ rooms = [pre.rooms EXCEPT ![R] = @ \ {ws}]
                   /\ roomId = [pre.roomId EXCEPT ![ws] = Undefined]
                   /\ \A w \in Conns :
                        sent[w] = IF w \in OpenMembers(rooms, R)
                                  THEN <<RoomCountEnvelope(R, Cardinality(pre.rooms[R]) - 1)>>
                                  ELSE <<>>
                   /\ sent[ws] = <<>>
              ELSE /\ sent = NoSent
                   /\ rooms = pre.rooms
                   /\ roomId = pre.roomId

\* C10 witness: a member left a room in which another open member remains,
\* who was sent the count 1.
C10_Witness ==
    /\ LastIsFrame("room.leave")
    /\ Truthy(pre.roomId[last.ws])
    /\ roomId[last.ws] = Undefined
    /\ \E w \in Conns \ {last.ws} :
        sent[w] = <<RoomCountEnvelope(pre.roomId[last.ws], 1)>>

\* C11: room.join for the room the socket is already a member of leaves
\* every member set and every room pointer as it was, and sends the joiner
\* room.joined again followed by a room.count carrying the unchanged size.
C11_RejoinIdempotent ==
    \A R \in RoomIds :
        (LastIsFrame("room.join") /\ JoinTarget(last.msg) = R /\ pre.roomId[last.ws] = R)
        => /\ rooms = pre.rooms
           /\ roomId = pre.roomId
           /\ userSockets = pre.userSockets
           /\ sent[last.ws]
                = <<RoomJoinedEnvelope(R)>>
                  \o (IF IsOpen(last.ws)
                      THEN <<RoomCountEnvelope(R, Cardinality(pre.rooms[R]))>>
                      ELSE <<>>)

\* C11 witness: a member of a room of two joined that room again and was
\* sent the confirmation and the count 2.
C11_Witness ==
    /\ LastIsFrame("room.join")
    /\ pre.roomId[last.ws] = JoinTarget(last.msg)
    /\ Cardinality(rooms[JoinTarget(last.msg)]) = 2
    /\ sent[last.ws] = <<RoomJoinedEnvelope(JoinTarget(last.msg)),
                         RoomCountEnvelope(JoinTarget(last.msg), 2)>>

\* C12 (as claimed): every room.count a socket is sent carries the size the
\* room has when the event that caused the broadcast ends; no intermediate
\* count is sent.
C12_NoIntermediateCount ==
    \A w \in Conns : \A i \in 1..Len(sent[w]) :
        sent[w][i].type = "room.count"
        => sent[w][i].count = Cardinality(Members(rooms, sent[w][i].roomId))

\* The sockets whose disconnect handler has not run: accepted, and neither
\* 'error' nor 'close' emitted.
Live == {w \in Conns : phase[w] \in {"OPEN", "CLOSING"}}

\* C13: the identity index has a key for identity I exactly when some
\* connected, not yet disconnected socket has identity I, and the key maps
\* to exactly those sockets (never to the empty set); when one of two
\* sockets sharing an identity disconnects, the key keeps exactly the other.
C13_IdentityIndex ==
    /\ \A I \in DOMAIN userSockets :
        /\ userSockets[I] # {}
        /\ userSockets[I] = {w \in Live : userId[w] = I}
    /\ \A w \in Live : userId[w] \in DOMAIN userSockets
    /\ (last.op \in {"error", "close"} /\ userId[last.ws] \in DOMAIN pre.userSockets
          /\ last.ws \in pre.userSockets[userId[last.ws]]
          /\ Cardinality(pre.userSockets[userId[last.ws]]) = 2)
        => /\ userId[last.ws] \in DOMAIN userSockets
           /\ userSockets[userId[last.ws]] = pre.userSockets[userId[last.ws]] \ {last.ws}

\* C13 witness: one of two sockets sharing an identity disconnected and the
\* key maps to the other alone.
C13_Witness ==
    /\ last.op \in {"error", "close"}
    /\ userId[last.ws] \in DOMAIN userSockets
    /\ userId[last.ws] \in DOMAIN pre.userSockets
    /\ Cardinality(pre.userSockets[userId[last.ws]]) = 2
    /\ Cardinality(userSockets[userId[last.ws]]) = 1
    /\ last.ws \notin userSockets[userId[last.ws]]

\* C14: when the disconnect handler returns, its socket is in the member
\* set of no room and in no set of the identity index, and has no room
\* pointer.
C14_RemovedEverywhere ==
    last.op \in {"error", "close"}
    => /\ RoomsOf(rooms, last.ws) = {}
       /\ roomId[last.ws] = Undefined
       /\ \A I \in DOMAIN userSockets : last.ws \notin userSockets[I]

\* C14 witness: a socket that was a member of a room and in the index
\* disconnected while another socket shares its identity and its room.
C14_Witness ==
    /\ last.op \in {"error", "close"}
    /\ Truthy(pre.roomId[last.ws])
    /\ \E w \in Conns \ {last.ws} :
        /\ userId[w] = userId[last.ws]
        /\ roomId[w] = pre.roomId[last.ws]
        /\ w \in userSockets[userId[w]]

\* C15 (as claimed): once the disconnect handler has run for a socket, no
\* later event on that socket makes it a member of a room again or sends
\* anything to another socket.
C15_RemovedIsTerminal ==
    \A w \in Conns :
        phase[w] \in {"ERRORED", "CLOSED"}
        => /\ RoomsOf(rooms, w) = {}
           /\ (last.op = "message" /\ last.ws = w)
                => \A v \in Conns \ {w} : sent[v] = <<>>

\* C16: the disconnect handler is idempotent: run again on the state it
\* left (the 'close' that follows the 'error'), it changes no member set,
\* no room pointer and no identity-index entry, and sends nothing.
C16_DisconnectIdempotent ==
    /\ last.op \in {"error", "close"}
        => LET again == handleDisconnection(Start(phase), last.ws)
           IN  /\ again.rooms = rooms
               /\ again.roomId = roomId
               /\ again.userSockets = userSockets
               /\ again.sent = NoSent
    /\ (last.op = "close" /\ pre.phase[last.ws] = "ERRORED"
          /\ pre.roomId[last.ws] = Undefined)
        => RegistryUnchanged /\ sent = NoSent

\* C16 witness: 'close' followed 'error' on a socket while the socket that
\* shares its identity is an open member of the default room.
C16_Witness ==
    /\ last.op = "close"
    /\ pre.phase[last.ws] = "ERRORED"
    /\ pre.roomId[last.ws] = Undefined
    /\ \E w \in Conns \ {last.ws} :
        /\ userId[w] = userId[last.ws]
        /\ w \in OpenMembers(rooms, "general")

\* C20: a broadcast never sends to a socket whose transport is not open;
\* the socket it skips is sent nothing at all (no error envelope) and keeps
\* its room, room pointer and transport state.
C20_SkipNotOpen ==
    \A w \in Conns :
        ~IsOpen(w)
        => /\ TypesIn(sent[w]) \cap BroadcastTypes = {}
           /\ w # last.ws
                => /\ sent[w] = <<>>
                   /\ roomId[w] = pre.roomId[w]
                   /\ RoomsOf(rooms, w) = RoomsOf(pre.rooms, w)
                   /\ phase[w] = pre.phase[w]

\* C20 witness: a tip notification reached an open socket and skipped a
\* closing one that is a member of a room.
C20_Witness ==
    /\ last.op = "tip.deleted"
    /\ \E w \in Conns :
        /\ phase[w] = "CLOSING"
        /\ Truthy(roomId[w])
        /\ sent[w] = <<>>
    /\ \E v \in Conns : sent[v] # <<>>

\* The guest identities the model can generate.
GuestIdentities == {guestId(t, r) : t \in 0..MaxClock, r \in Randoms}

\* C17: connecting never fails on account of credentials. Whatever token is
\* presented (absent, malformed, expired, without userId, or any token while
\* JWT_SECRET is not set), the connection is registered in the identity
\* index under a guest identity and is sent welcome, and nobody is sent an
\* error envelope; with a verifiable token carrying a userId the identity
\* is that userId.
C17_CredentialsNeverFail ==
    last.op = "connection"
        => /\ sent[last.ws] = <<WelcomeEnvelope>>
           /\ \A w \in Conns : "error" \notin TypesIn(sent[w])
           /\ userId[last.ws] \in DOMAIN userSockets
           /\ last.ws \in userSockets[userId[last.ws]]
           /\ IF last.token = "valid" /\ secret
              THEN userId[last.ws] = "u1"
              ELSE userId[last.ws] \in GuestIdentities

\* C17 happens: a connection presenting an expired token, and one presenting
\* a good token while JWT_SECRET is not set, end up as registered guests
\* with a welcome.
C17_Witness ==
    /\ last.op = "connection"
    /\ \/ last.token = "expired"
       \/ last.token = "valid" /\ ~secret
    /\ userId[last.ws] \in GuestIdentities
    /\ last.ws \in userSockets[userId[last.ws]]
    /\ sent[last.ws] = <<WelcomeEnvelope>>

\* C18: guest identities are collision-free for the process lifetime: two
\* distinct connections that were both given a guest identity have
\* different identity strings, also when they connect in the same
\* millisecond.
C18_GuestIdsDistinct ==
    \A a \in Conns : \A b \in Conns :
        (a # b /\ userId[a] \in GuestIdentities /\ userId[b] \in GuestIdentities)
            => userId[a] # userId[b]

\* The eligible open recipients of the broadcasts of the latest event: the
\* open members of the room a count or chat goes to (the sender of a chat
\* excepted), the open clients for a tip.
Recipients ==
    IF last.op \in {"tip.created", "tip.updated", "tip.deleted"}
    THEN {w \in Conns : IsOpen(w)}
    ELSE IF LastIsFrame("chat.message")
    THEN OpenMembers(rooms, pre.roomId[last.ws]) \ {last.ws}
    ELSE IF LastIsFrame("room.join")
    THEN OpenMembers(rooms, JoinTarget(last.msg))
    ELSE IF LastIsFrame("room.leave") \/ last.op \in {"error", "close"}
    THEN OpenMembers(rooms, pre.roomId[last.ws])
    ELSE {}

\* The type of the envelope the latest event broadcasts last.
BroadcastType ==
    IF last.op \in {"tip.created", "tip.updated", "tip.deleted"} THEN last.op
    ELSE IF LastIsFrame("chat.message") THEN "chat.message"
    ELSE "room.count"

\* C19: a failed send to one recipient does not abort a broadcast: when a
\* send of the latest event failed, every other eligible open recipient of
\* the broadcast was still sent the envelope.
C19_FailedSendDoesNotAbort ==
    failed # {}
        => \A w \in Recipients \ failed :
               /\ sent[w] # <<>>
               /\ sent[w][Len(sent[w])].type = BroadcastType

\* C19 happens: a room.count broadcast failed for one member and reached
\* another one, and a tip broadcast failed for one client and reached
\* another one.
C19_Witness ==
    /\ failed # {}
    /\ \E v \in failed : \E w \in Recipients \ failed :
           /\ v < w
           /\ v \in Recipients
           /\ sent[w][Len(sent[w])].type = BroadcastType

TipTypes == {"tip.created", "tip.updated", "tip.deleted"}

\* C21: a tip notification (tip.created, tip.updated, tip.deleted) is sent
\* to every tracked connection whose transport is open, whatever its room:
\* members of different rooms and connections in no room all get it, and
\* nobody else gets anything; tip.deleted carries the payload {id}; the
\* notification changes no room membership and no identity-index entry.
C21_TipToAll ==
    last.op \in TipTypes
        => /\ RegistryUnchanged
           /\ \E tip \in TipIds :
                LET payload == IF last.op = "tip.deleted"
                               THEN "id:" \o tip
                               ELSE "tip:" \o tip
                IN  \A w \in Conns :
                        sent[w] = IF IsOpen(w)
                                  THEN <<TipEnvelope(last.op, payload)>>
                                  ELSE <<>>

\* C21 happens: tip.deleted reached a member of a room and a connection
\* that is in another room or in none.
C21_Witness ==
    /\ last.op = "tip.deleted"
    /\ \E a \in Conns : \E b \in Conns :
        /\ Truthy(roomId[a])
        /\ roomId[b] # roomId[a]
        /\ sent[a] = <<TipEnvelope("tip.deleted", "id:t1")>>
        /\ sent[b] = sent[a]

\* C23: every chat.message envelope delivered to a connection carries the
\* roomId of the room through whose member set the recipient was reached,
\* the sender classification 'peer' and the identity of the connection
\* that sent the chat command.
C23_ChatEnvelopeFields ==
    \A w \in Conns : \A i \in 1..Len(sent[w]) :
        sent[w][i].type = "chat.message"
            => /\ w \in Members(rooms, sent[w][i].roomId)
               /\ sent[w][i].sender = "peer"
               /\ sent[w][i].userId = userId[last.ws]

\* C26: room pointer and member sets always agree: a connection is in the
\* member set of room r exactly if its room pointer is r, and a connection
\* without room pointer is in no member set.
C26_PointerAgrees ==
    \A c \in Conns :
        /\ \A r \in RoomIds \cup DOMAIN rooms :
               c \in Members(rooms, r) <=> roomId[c] = r
        /\ ~Truthy(roomId[c]) => RoomsOf(rooms, c) = {}

\* C26 happens: one connection has switched to another room while a second
\* one has left its room.
C26_Witness ==
    /\ LastIsFrame("room.leave")
    /\ Truthy(pre.roomId[last.ws])
    /\ roomId[last.ws] = Undefined
    /\ RoomsOf(rooms, last.ws) = {}
    /\ \E c \in Conns \ {last.ws} : roomId[c] = "r1" /\ RoomsOf(rooms, c) = {"r1"}

\* C27: a chat.message command from a connection that is a member of no
\* room (it never joined, or it left) is delivered to no connection.
C27_NoRoomChatSilent ==
    (LastIsFrame("chat.message") /\ RoomsOf(pre.rooms, last.ws) = {})
        => sent = NoSent

\* Entry i of the stream s is the room.joined of the latest join before
\* entry n.
LatestJoin(s, i, n) ==
    /\ i < n
    /\ s[i].type = "room.joined"
    /\ \A m \in (i + 1)..(n - 1) : s[m].type # "room.joined"

\* C22: each connection is sent the envelopes in the order the server
\* issued them: the stream of a socket carries the events in their order
\* (so two chat.messages sent to a room reach every common recipient in
\* the order they were sent), and a chat.message comes after the
\* room.count of the recipient's own latest join.
C22_IssueOrder ==
    \A w \in Conns :
        LET s == wire[w]
        IN  \A n \in 1..Len(s) :
                /\ \A m \in 1..Len(s) : m < n => s[m].ev <= s[n].ev
                /\ s[n].type = "chat.message"
                    => \E i \in 1..Len(s) :
                        /\ LatestJoin(s, i, n)
                        /\ i + 1 < n
                        /\ s[i + 1].type = "room.count"
                        /\ s[i + 1].roomId = s[i].roomId
                        /\ s[i + 1].ev = s[i].ev
                        /\ s[i].ev < s[n].ev

\* C22 happens: a connection got the count of its own join and then two
\* chat.messages of two later events, in the order of the events.
C22_Witness ==
    \E w \in Conns :
        LET s == wire[w]
        IN  \E i \in 1..Len(s) : \E m \in 1..Len(s) : \E n \in 1..Len(s) :
                /\ i < m
                /\ m < n
                /\ s[i].type = "room.count"
                /\ s[i - 1].type = "room.joined"
                /\ s[m].type = "chat.message"
                /\ s[n].type = "chat.message"
                /\ s[m].ev < s[n].ev

\* The notifications a request issued.
Issued(r) == SelectSeq(r.trace, LAMBDA x : x \in TipTypes)

\* C24: a tips route issues its notification only after its persistence
\* step succeeded and before its response: a successful create, update or
\* delete issues exactly one tip.created, tip.updated or tip.deleted, and
\* a request that ends in a validation failure, a 404 or a persistence
\* error issues none.
C24_NotifyOncePerSuccess ==
    (req.pc = "idle" /\ req.status # 0)
        => IF req.status \in {200, 201}
           THEN req.trace = <<"persisted", NotificationOf(req.method), "response">>
           ELSE Issued(req) = <<>>

\* C24, amended: a successful create, update or delete issues exactly one
\* notification of its kind if a manager has been set up, and none (only
\* a warning is logged) if none has; in both cases this comes after the
\* persistence step and before the success response; a request that ends
\* in a validation failure, a 404 or a persistence error issues none.
C24_NotifyAfterPersist ==
    (req.pc = "idle" /\ req.status # 0)
        => IF req.status \in {200, 201}
           THEN \/ /\ req.trace = <<"persisted", NotificationOf(req.method), "response">>
                   /\ wsManager
                \/ req.trace = <<"persisted", "warn", "response">>
           ELSE /\ Issued(req) = <<>>
                /\ req.trace = <<"response">>

\* C24 happens: a create was stored, announced to an open socket and
\* answered 201, in this order.
C24_Witness ==
    /\ req.pc = "idle"
    /\ req.status = 201
    /\ req.trace = <<"persisted", "tip.created", "response">>
    /\ last.op = "tip.created"
    /\ \E w \in Conns : sent[w] = <<TipEnvelope("tip.created", "tip:" \o req.id)>>

\* C25: a notification that finds no socket connected, or no manager set
\* up yet, is not an error for the route: once the persistence step
\* succeeded the request ends with its success response (201 for a create,
\* 200 for an update or a delete) and the persisted change is kept.
C25_NotifyNeverFailsRequest ==
    (req.pc = "idle" /\ req.status # 0 /\ req.trace # <<>> /\ req.trace[1] = "persisted")
        => /\ req.status = SuccessOf(req.method)
           /\ req.method \in {"POST", "PUT"} => req.id \in tips
           /\ req.method = "DELETE" => req.id \notin tips

\* C25 happens: a create answered 201 before the manager was set up, the
\* tip being stored.
C25_Witness ==
    /\ ~wsManager
    /\ req.pc = "idle"
    /\ req.method = "POST"
    /\ req.status = 201
    /\ req.trace[1] = "persisted"
    /\ req.id \in tips

\* C28: chat client teardown is final: once the effect's cleanup ran, no
\* reconnect timer is pending and no WebSocket of the tab is connecting or
\* open (the cleanup closed the one there was, so such a socket would be a
\* new one).
C28_TeardownFinal ==
    client.unmounted
        => /\ client.timers = {}
           /\ \A s \in Conns : client.readyState[s] \notin {"CONNECTING", "OPEN"}

\* C29: reconnect backoff of the chat client: every failed socket raises
\* the retry counter by one, also when it fires both 'error' and 'close',
\* so the timer armed after the k-th failure in a row (k from 0) has the
\* delay min(30000, 1000 * 2^k); at most one timer is pending; the counter
\* is 0 while a socket is open.
C29_BackoffByOne ==
    ~client.unmounted
        => /\ client.retries = client.failures
           /\ \A t \in client.timers :
                  t.delay = Min(MaxDelay, BaseDelay * 2 ^ (client.failures - 1))
           /\ Cardinality(client.timers) <= 1
           /\ (\E s \in Conns : client.readyState[s] = "OPEN") => client.retries = 0

\* The tab's socket is open at both ends and no frame is in flight in
\* either direction.
Quiescent(s) ==
    /\ client.wsRef = s
    /\ client.readyState[s] = "OPEN"
    /\ phase[s] = "OPEN"
    /\ net.c2s[s] = <<>>
    /\ net.s2c[s] = <<>>

\* C30: chat client and server agree on the room at quiescence: the tab's
\* state.currentRoom and currentRoomRef equal the server-side room of its
\* connection, and this is the room the user selected last, also after a
\* reconnect.
C30_RoomAgreement ==
    \A s \in Conns :
        Quiescent(s)
            => /\ client.currentRoom = roomId[s]
               /\ client.currentRoomRef = roomId[s]
               /\ client.currentRoom = client.selected

\* The tab and the server agree with each other at quiescence.
RoomsAgree ==
    \A s \in Conns :
        Quiescent(s)
            => /\ client.currentRoom = roomId[s]
               /\ client.currentRoomRef = roomId[s]

====
